---------------------------- MODULE Spec2Model ----------------------------
(***************************************************************************)
(* GenericTree<T> (src/GenericTree.h): an ordered rooted multi-way tree of *)
(* heap nodes linked by raw pointers.  Two tree instances share one heap,  *)
(* so that a node handle of one instance can be passed to the other.       *)
(*                                                                         *)
(* A node identity is a number of 1..MaxNodes, nullptr is 0.  Identities   *)
(* stand for allocations: `new` hands out one that was never used, and     *)
(* `delete` marks it released.  Callers pass only handles of live nodes.   *)
(*                                                                         *)
(* Spec takes every public call as one step.  SpecSteps follows            *)
(* deleteSubtree, clear, compress and Print through their loops, one       *)
(* iteration per step, with the locals and the output streams in `call`.   *)
(***************************************************************************)
EXTENDS Integers, Sequences, FiniteSets, TLC

\* Bound of the model: the number of nodes allocated in a run.
MaxNodes == 4

NULL == 0
Nodes == 1..MaxNodes
Ptrs == 0..MaxNodes
\* The element type T, by two sample values; NoData where no value is stored.
Values == {"X", "Y"}
NoData == "-"
Trees == {"A", "B"}

VARIABLES
  rootNodePtr,   \* [Trees -> Ptrs]      GenericTree::rootNodePtr of each instance
  status,        \* [Nodes -> {"unalloc", "live", "released"}]  the heap
  data,          \* [Nodes -> Values]    TreeNode::data
  parentPtr,     \* [Nodes -> Ptrs]      TreeNode::parentPtr
  childrenPtrs,  \* [Nodes -> Seq(Ptrs)] TreeNode::childrenPtrs
  deleteCount,   \* [Nodes -> Nat]       how often `delete` was applied to the node
  lastOp,        \* the last public call: its name, the exception thrown, and
                 \* whether it changed the trees
  call           \* the frame of the call in progress, when calls are followed
                 \* step by step: its position, its locals and its output

heap == <<status, data, parentPtr, childrenPtrs, deleteCount>>
vars == <<rootNodePtr, status, data, parentPtr, childrenPtrs, deleteCount, lastOp, call>>

\* The heap as one value, for the operators that compute a call's effect.
Heap == [status |-> status, data |-> data, parentPtr |-> parentPtr,
         childrenPtrs |-> childrenPtrs, deleteCount |-> deleteCount]

\* What a call leaves: the exception thrown ("none" when it returns), the
\* root pointers, the heap, and the pointer returned (NULL for void).
Outcome(e, root, h, ret) == [err |-> e, rootNodePtr |-> root, h |-> h, ret |-> ret]

Call(op, r) ==
  [op |-> op, err |-> r.err,
   changed |-> (r.h # Heap \/ r.rootNodePtr # rootNodePtr)]

Live(n) == n \in Nodes /\ status[n] = "live"

\* No call in progress.  The fields are the locals of deleteSubtree, compress
\* and Print, the two output streams (sequences of the items inserted), the
\* exception thrown, and a record of what the call has done so far: the loop
\* iterations run (steps), the pointers pushed for exploration (pushed), the
\* null pointers popped (skipped), the nodes whose children were read
\* (childrenRead), the nodes deleted (released), and whether a field of a
\* node was read after its deletion (readReleased).
NoCall ==
  [pc |-> "idle", op |-> "none", this |-> "none", showDebugMessages |-> FALSE,
   targetRoot |-> NULL, walkBack |-> NULL, targetingWholeTreeRoot |-> FALSE,
   nodesToExplore |-> <<>>, nodesToDelete |-> <<>>,
   depthStack |-> <<>>, curMarginStack |-> <<>>, trailingMarginStack |-> <<>>,
   os |-> <<>>, cerr |-> <<>>, err |-> "none",
   steps |-> 0, pushed |-> <<>>, skipped |-> 0,
   childrenRead |-> {}, released |-> {}, readReleased |-> FALSE]

\* GenericTree(): no root; nothing is allocated yet.
Init ==
  /\ rootNodePtr = [t \in Trees |-> NULL]
  /\ status = [n \in Nodes |-> "unalloc"]
  /\ data = [n \in Nodes |-> NoData]
  /\ parentPtr = [n \in Nodes |-> NULL]
  /\ childrenPtrs = [n \in Nodes |-> <<>>]
  /\ deleteCount = [n \in Nodes |-> 0]
  /\ lastOp = [op |-> "init", err |-> "none", changed |-> FALSE]
  /\ call = NoCall

\* `new TreeNode(...)`: the next allocation.
HasFree == \E n \in Nodes : status[n] = "unalloc"
NewNode == CHOOSE n \in Nodes :
             /\ status[n] = "unalloc"
             /\ \A m \in Nodes : m < n => status[m] # "unalloc"

\* TreeNode(dataArg) : parentPtr(nullptr), data(dataArg), on the fresh node n
NewTreeNode(h, n, dataArg) ==
  [h EXCEPT !.status[n] = "live",
            !.data[n] = dataArg,
            !.parentPtr[n] = NULL,
            !.childrenPtrs[n] = <<>>]

SetState(r) ==
  /\ rootNodePtr' = r.rootNodePtr
  /\ status' = r.h.status
  /\ data' = r.h.data
  /\ parentPtr' = r.h.parentPtr
  /\ childrenPtrs' = r.h.childrenPtrs
  /\ deleteCount' = r.h.deleteCount

-----------------------------------------------------------------------------
\* createRoot

\* Faulty variant: the check for an existing root is missing.
RootExists_Never(t) == FALSE

RootExists(t) == NULL # rootNodePtr[t]

createRoot(t, rootData) ==
  IF RootExists(t)
  THEN Outcome("AlreadyInitialized", rootNodePtr, Heap, NULL)
  ELSE Outcome("none",
               [rootNodePtr EXCEPT ![t] = NewNode],
               NewTreeNode(Heap, NewNode, rootData),
               NewNode)

CreateRoot(t, v) ==
  /\ RootExists(t) \/ HasFree
  /\ LET r == createRoot(t, v)
     IN SetState(r) /\ lastOp' = Call("createRoot", r) /\ UNCHANGED call

-----------------------------------------------------------------------------
\* TreeNode::addChild, called on the node this

\* Faulty variant: the new child is put in front of the others.
addChild_Prepend(this, childData) ==
  LET newChildPtr == NewNode
      h1 == NewTreeNode(Heap, newChildPtr, childData)
      h2 == [h1 EXCEPT !.parentPtr[newChildPtr] = this]
      h3 == [h2 EXCEPT !.childrenPtrs[this] = <<newChildPtr>> \o @]
  IN Outcome("none", rootNodePtr, h3, newChildPtr)

\* Faulty variant: the new child is not told its parent.
addChild_NoParent(this, childData) ==
  LET newChildPtr == NewNode
      h1 == NewTreeNode(Heap, newChildPtr, childData)
      h3 == [h1 EXCEPT !.childrenPtrs[this] = Append(@, newChildPtr)]
  IN Outcome("none", rootNodePtr, h3, newChildPtr)

addChild(this, childData) ==
  LET newChildPtr == NewNode
      h1 == NewTreeNode(Heap, newChildPtr, childData)
      h2 == [h1 EXCEPT !.parentPtr[newChildPtr] = this]
      h3 == [h2 EXCEPT !.childrenPtrs[this] = Append(@, newChildPtr)]
  IN Outcome("none", rootNodePtr, h3, newChildPtr)

AddChild(p, v) ==
  /\ Live(p)
  /\ HasFree
  /\ LET r == addChild(p, v)
     IN SetState(r) /\ lastOp' = Call("addChild", r) /\ UNCHANGED call

-----------------------------------------------------------------------------
\* deleteSubtree

\* The walk from the target back to its ultimate parent.
RECURSIVE WalkBack(_)
WalkBack(n) ==
  IF parentPtr[n] # NULL THEN WalkBack(parentPtr[n]) ELSE n

\* Faulty variant: an empty tree accepts any node.
DifferentTree_EmptyAccepts(t, targetRoot) ==
  rootNodePtr[t] # NULL /\ WalkBack(targetRoot) # rootNodePtr[t]

\* The ultimate root found must be this tree's root.
DifferentTree(t, targetRoot) == WalkBack(targetRoot) # rootNodePtr[t]

\* Faulty variant: the root pointer is never reset.
TargetingWholeTreeRoot_Never(t, targetRoot) == FALSE

TargetingWholeTreeRoot(t, targetRoot) == rootNodePtr[t] = targetRoot

\* The search of the parent's children for the target: the index of the first
\* slot that holds it, 0 when no slot does.
RECURSIVE FindTarget(_, _, _)
FindTarget(children, targetRoot, i) ==
  IF i > Len(children) THEN 0
  ELSE IF children[i] = targetRoot THEN i
  ELSE FindTarget(children, targetRoot, i + 1)

TargetWasFound(children, targetRoot) == FindTarget(children, targetRoot, 1) # 0

\* Faulty variant: the first slot is cleared instead of the slot found.
Detach_FirstSlot(children, targetRoot) ==
  IF children = <<>> THEN children ELSE [children EXCEPT ![1] = NULL]

\* Faulty variant: the slot found is erased from the sequence.
Detach_Erase(children, targetRoot) ==
  LET i == FindTarget(children, targetRoot, 1) IN
    IF i = 0 THEN children
    ELSE SubSeq(children, 1, i - 1) \o SubSeq(children, i + 1, Len(children))

\* Faulty variant: the slot found keeps pointing to the target.
Detach_Keep(children, targetRoot) == children

\* currentChildPtr = nullptr; break
Detach(children, targetRoot) ==
  LET i == FindTarget(children, targetRoot, 1) IN
    IF i = 0 THEN children ELSE [children EXCEPT ![i] = NULL]

\* Faulty variant: the children of an explored node are not pushed.
Explore_NoChildren(children, nodesToExplore, nodesToDelete) ==
  nodesToDelete \o SelectSeq(nodesToExplore, LAMBDA c : c # NULL)

\* The explore loop: pops the top of nodesToExplore, skips a null, records the
\* node on nodesToDelete and pushes its children pointers first to last.
\* Stacks are sequences whose top is the last element.  The value is the final
\* nodesToDelete.
RECURSIVE Explore(_, _, _)
Explore(children, nodesToExplore, nodesToDelete) ==
  IF nodesToExplore = <<>> THEN nodesToDelete
  ELSE LET curNode == nodesToExplore[Len(nodesToExplore)]
           rest == SubSeq(nodesToExplore, 1, Len(nodesToExplore) - 1)
       IN IF curNode = NULL
          THEN Explore(children, rest, nodesToDelete)
          ELSE Explore(children, rest \o children[curNode],
                       Append(nodesToDelete, curNode))

\* delete curNode: the node's storage is gone (its fields no longer exist and
\* are kept at their defaults).
DeleteNode(h, curNode) ==
  [h EXCEPT !.status[curNode] = "released",
            !.data[curNode] = NoData,
            !.parentPtr[curNode] = NULL,
            !.childrenPtrs[curNode] = <<>>,
            !.deleteCount[curNode] = @ + 1]

\* Faulty variant: the loop stops with one node left on the stack.
RECURSIVE Release_KeepsBottom(_, _)
Release_KeepsBottom(h, nodesToDelete) ==
  IF Len(nodesToDelete) <= 1 THEN h
  ELSE Release_KeepsBottom(DeleteNode(h, nodesToDelete[Len(nodesToDelete)]),
                           SubSeq(nodesToDelete, 1, Len(nodesToDelete) - 1))

\* The delete loop: pops the top of nodesToDelete and deletes it.
RECURSIVE Release(_, _)
Release(h, nodesToDelete) ==
  IF nodesToDelete = <<>> THEN h
  ELSE Release(DeleteNode(h, nodesToDelete[Len(nodesToDelete)]),
               SubSeq(nodesToDelete, 1, Len(nodesToDelete) - 1))

deleteSubtree(t, targetRoot) ==
  IF NULL = targetRoot
  THEN Outcome("none", rootNodePtr, Heap, NULL)
  ELSE IF DifferentTree(t, targetRoot)
  THEN Outcome("CrossTree", rootNodePtr, Heap, NULL)
  ELSE LET p == parentPtr[targetRoot] IN
    IF p # NULL /\ ~TargetWasFound(childrenPtrs[p], targetRoot)
    THEN Outcome("NotListed", rootNodePtr, Heap, NULL)
    ELSE LET detached == IF p # NULL
                         THEN [Heap EXCEPT !.childrenPtrs[p] = Detach(@, targetRoot)]
                         ELSE Heap
             nodesToDelete == Explore(detached.childrenPtrs, <<targetRoot>>, <<>>)
         IN Outcome("none",
                    IF TargetingWholeTreeRoot(t, targetRoot)
                    THEN [rootNodePtr EXCEPT ![t] = NULL] ELSE rootNodePtr,
                    Release(detached, nodesToDelete),
                    NULL)

\* t.deleteSubtree(targetRoot) with a null handle or the handle of a live node
DeleteSubtree(t, targetRoot) ==
  /\ targetRoot = NULL \/ Live(targetRoot)
  /\ LET r == deleteSubtree(t, targetRoot)
     IN SetState(r) /\ lastOp' = Call("deleteSubtree", r) /\ UNCHANGED call

-----------------------------------------------------------------------------
\* clear, which is also all the destructor does

clear(t) ==
  LET r == deleteSubtree(t, rootNodePtr[t]) IN
    IF r.err = "none" /\ r.rootNodePtr[t] # NULL
    THEN [r EXCEPT !.err = "RootNotReset"]
    ELSE r

Clear(t) ==
  LET r == clear(t)
  IN SetState(r) /\ lastOp' = Call("clear", r) /\ UNCHANGED call

-----------------------------------------------------------------------------
\* compress

\* Faulty variant: the surviving children are collected in reverse.
RECURSIVE CompressedChildrenPtrs_Reversed(_)
CompressedChildrenPtrs_Reversed(children) ==
  IF children = <<>> THEN <<>>
  ELSE CompressedChildrenPtrs_Reversed(Tail(children))
         \o (IF Head(children) # NULL THEN <<Head(children)>> ELSE <<>>)

\* Faulty variant: only the first tombstone is dropped.
RECURSIVE CompressedChildrenPtrs_FirstOnly(_)
CompressedChildrenPtrs_FirstOnly(children) ==
  IF children = <<>> THEN <<>>
  ELSE IF Head(children) = NULL THEN Tail(children)
  ELSE <<Head(children)>> \o CompressedChildrenPtrs_FirstOnly(Tail(children))

\* compressedChildrenPtrs: the non-null children pointers, in order.
CompressedChildrenPtrs(children) == SelectSeq(children, LAMBDA c : c # NULL)

\* Faulty variant: the surviving children are not queued for exploration.
CompressLoop_RootOnly(children, nodesToExplore) ==
  IF nodesToExplore = <<>> THEN [childrenPtrs |-> children, err |-> "none"]
  ELSE [childrenPtrs |->
          [children EXCEPT ![Head(nodesToExplore)] =
             SelectSeq(children[Head(nodesToExplore)], LAMBDA c : c # NULL)],
        err |-> "none"]

\* Faulty variant: every child pointer is queued, tombstones included.
RECURSIVE CompressLoop_QueuesAll(_, _)
CompressLoop_QueuesAll(children, nodesToExplore) ==
  IF nodesToExplore = <<>> THEN [childrenPtrs |-> children, err |-> "none"]
  ELSE LET frontNode == Head(nodesToExplore) IN
    IF frontNode = NULL
    THEN [childrenPtrs |-> children, err |-> "QueuedNull"]
    ELSE LET compressed == CompressedChildrenPtrs(children[frontNode]) IN
      CompressLoop_QueuesAll([children EXCEPT ![frontNode] = compressed],
                             Tail(nodesToExplore) \o children[frontNode])

\* The exploration loop over the queue nodesToExplore (front = first element):
\* the children sequences it leaves and the exception thrown.
RECURSIVE CompressLoop(_, _)
CompressLoop(children, nodesToExplore) ==
  IF nodesToExplore = <<>> THEN [childrenPtrs |-> children, err |-> "none"]
  ELSE LET frontNode == Head(nodesToExplore) IN
    IF frontNode = NULL
    THEN [childrenPtrs |-> children, err |-> "QueuedNull"]
    ELSE LET compressed == CompressedChildrenPtrs(children[frontNode]) IN
      CompressLoop([children EXCEPT ![frontNode] = compressed],
                   Tail(nodesToExplore) \o compressed)

\* compress() on a tree with the root pointer root, over the given children
\* sequences: the children sequences it leaves and the exception thrown.
compressFrom(root, children) ==
  IF root = NULL
  THEN [childrenPtrs |-> children, err |-> "none"]
  ELSE CompressLoop(children, <<root>>)

compress(t) ==
  LET r == compressFrom(rootNodePtr[t], childrenPtrs) IN
    Outcome(r.err, rootNodePtr, [Heap EXCEPT !.childrenPtrs = r.childrenPtrs], NULL)

Compress(t) ==
  LET r == compress(t)
  IN SetState(r) /\ lastOp' = Call("compress", r) /\ UNCHANGED call

-----------------------------------------------------------------------------
Next ==
  \/ \E t \in Trees, v \in Values : CreateRoot(t, v)
  \/ \E p \in Nodes, v \in Values : AddChild(p, v)
  \/ \E t \in Trees, n \in Ptrs : DeleteSubtree(t, n)
  \/ \E t \in Trees : Compress(t)
  \/ \E t \in Trees : Clear(t)

Spec == Init /\ [][Next]_vars

-----------------------------------------------------------------------------
\* The calls followed step by step: one step per loop iteration.

\* What a step leaves: the frame, the root pointers and the heap.
StepTo(c, root, h) == [call |-> c, rootNodePtr |-> root, h |-> h]

\* return, or throw e
Returns(c, e) == [c EXCEPT !.pc = "returned", !.err = e]

\* std::stack as a sequence whose top is the last element
Top(stack) == stack[Len(stack)]
Pop(stack) == SubSeq(stack, 1, Len(stack) - 1)

endl == "\n"

\* `<< curNode->data`, or the null marker
Text(curNode) == IF curNode # NULL THEN data[curNode] ELSE "[null]"

\* The node is dereferenced: noted when its storage is already gone.
Deref(c, n) == [c EXCEPT !.readReleased = @ \/ status[n] = "released"]

\* clear(): the test of rootNodePtr after deleteSubtree has returned
AfterDeleteSubtree(c, root) ==
  IF c.op = "clear" /\ root[c.this] # NULL
  THEN Returns(c, "RootNotReset")
  ELSE Returns(c, "none")

\* Entry of deleteSubtree(targetRoot), called directly or by clear().
deleteSubtreeEnter(op, t, targetRoot, dbg) ==
  LET c == [NoCall EXCEPT !.op = op, !.this = t, !.showDebugMessages = dbg,
                          !.targetRoot = targetRoot]
  IN IF NULL = targetRoot
     THEN AfterDeleteSubtree(c, rootNodePtr)
     ELSE [c EXCEPT !.pc = "walkBack", !.walkBack = targetRoot]

\* Faulty variant: the walk does not advance.
walkBackStep_Stays(c) ==
  LET d == Deref(c, c.walkBack) IN
    IF parentPtr[c.walkBack] # NULL
    THEN d
    ELSE IF c.walkBack # rootNodePtr[c.this]
    THEN Returns(d, "CrossTree")
    ELSE [d EXCEPT !.pc = "detach",
                   !.targetingWholeTreeRoot = TargetingWholeTreeRoot(c.this, c.targetRoot)]

\* One test of the walk-back loop, and what follows its exit.
walkBackStep(c) ==
  LET d == Deref(c, c.walkBack) IN
    IF parentPtr[c.walkBack] # NULL
    THEN [d EXCEPT !.walkBack = parentPtr[@]]
    ELSE IF c.walkBack # rootNodePtr[c.this]
    THEN Returns(d, "CrossTree")
    ELSE [d EXCEPT !.pc = "detach",
                   !.targetingWholeTreeRoot = TargetingWholeTreeRoot(c.this, c.targetRoot)]

\* The search of the parent's children and the first push.
detachStep(c) ==
  LET p == parentPtr[c.targetRoot]
      explore == [Deref(c, c.targetRoot) EXCEPT !.pc = "explore",
                                                !.nodesToExplore = <<c.targetRoot>>,
                                                !.pushed = <<c.targetRoot>>]
  IN IF p = NULL
     THEN StepTo(explore, rootNodePtr, Heap)
     ELSE IF ~TargetWasFound(childrenPtrs[p], c.targetRoot)
     THEN StepTo(Returns(c, "NotListed"), rootNodePtr, Heap)
     ELSE StepTo(Deref(explore, p), rootNodePtr,
                 [Heap EXCEPT !.childrenPtrs[p] = Detach(@, c.targetRoot)])

\* What the explore loop writes to std::cerr for curNode.
ExploreTrace(c, curNode) ==
  IF c.showDebugMessages
  THEN c.cerr \o <<"Exploring node: ", Text(curNode), endl>>
  ELSE c.cerr

\* Faulty variant: the node is deleted as soon as it has been explored.
exploreStep_DeletesAtOnce(c) ==
  IF c.nodesToExplore = <<>>
  THEN StepTo([c EXCEPT !.pc = "release"], rootNodePtr, Heap)
  ELSE LET curNode == Top(c.nodesToExplore)
           popped == [c EXCEPT !.nodesToExplore = Pop(@),
                               !.cerr = ExploreTrace(c, curNode)]
       IN IF curNode = NULL
          THEN StepTo([popped EXCEPT !.skipped = @ + 1], rootNodePtr, Heap)
          ELSE StepTo([Deref(popped, curNode) EXCEPT
                         !.nodesToExplore = @ \o childrenPtrs[curNode],
                         !.pushed = @ \o childrenPtrs[curNode],
                         !.childrenRead = @ \cup {curNode},
                         !.released = @ \cup {curNode}],
                      rootNodePtr,
                      DeleteNode(Heap, curNode))

\* The test of the explore loop and one iteration of it.
exploreStep(c) ==
  IF c.nodesToExplore = <<>>
  THEN StepTo([c EXCEPT !.pc = "release"], rootNodePtr, Heap)
  ELSE LET curNode == Top(c.nodesToExplore)
           popped == [c EXCEPT !.nodesToExplore = Pop(@),
                               !.cerr = ExploreTrace(c, curNode)]
       IN IF curNode = NULL
          THEN StepTo([popped EXCEPT !.skipped = @ + 1], rootNodePtr, Heap)
          ELSE StepTo([Deref(popped, curNode) EXCEPT
                         !.nodesToDelete = Append(@, curNode),
                         !.nodesToExplore = @ \o childrenPtrs[curNode],
                         !.pushed = @ \o childrenPtrs[curNode],
                         !.childrenRead = @ \cup {curNode}],
                      rootNodePtr, Heap)

\* What the delete loop writes to std::cerr for curNode, and the read of the
\* node's value that it takes.
ReleaseTrace(c, curNode) ==
  IF c.showDebugMessages
  THEN [Deref(c, curNode) EXCEPT
          !.cerr = @ \o <<"Deleting node: ", Text(curNode), endl>>]
  ELSE c

\* The test of the delete loop and one iteration of it; after the loop, the
\* reset of the root pointer.
releaseStep(c) ==
  IF c.nodesToDelete = <<>>
  THEN LET root == IF c.targetingWholeTreeRoot
                   THEN [rootNodePtr EXCEPT ![c.this] = NULL]
                   ELSE rootNodePtr
       IN StepTo(AfterDeleteSubtree(c, root), root, Heap)
  ELSE LET curNode == Top(c.nodesToDelete)
       IN StepTo([ReleaseTrace(c, curNode) EXCEPT
                    !.nodesToDelete = Pop(@),
                    !.released = @ \cup {curNode}],
                 rootNodePtr, DeleteNode(Heap, curNode))

\* Entry of compress().
compressEnter(t) ==
  LET c == [NoCall EXCEPT !.op = "compress", !.this = t]
  IN IF ~RootExists(t)
     THEN Returns(c, "none")
     ELSE [c EXCEPT !.pc = "compress",
                    !.nodesToExplore = <<rootNodePtr[t]>>,
                    !.pushed = <<rootNodePtr[t]>>]

\* The test of the loop of compress() and one iteration of it.  The queue is
\* a sequence whose front is the first element.
compressStep(c) ==
  IF c.nodesToExplore = <<>>
  THEN StepTo(Returns(c, "none"), rootNodePtr, Heap)
  ELSE LET frontNode == Head(c.nodesToExplore) IN
    IF frontNode = NULL
    THEN StepTo(Returns([c EXCEPT !.nodesToExplore = Tail(@)], "QueuedNull"),
                rootNodePtr, Heap)
    ELSE LET compressedChildrenPtrs == CompressedChildrenPtrs(childrenPtrs[frontNode])
         IN StepTo([Deref(c, frontNode) EXCEPT
                      !.nodesToExplore = Tail(@) \o compressedChildrenPtrs,
                      !.pushed = @ \o compressedChildrenPtrs,
                      !.childrenRead = @ \cup {frontNode}],
                   rootNodePtr,
                   [Heap EXCEPT !.childrenPtrs[frontNode] = compressedChildrenPtrs])

\* Print

LAST_ROW == 2

\* What one margin column puts on the stream in the given row.
StemItems(curMargin, col, row) ==
  LET showStem == curMargin[col]
      stemSymbol == IF ~showStem THEN " " ELSE "|"
      isLastCol == (col = Len(curMargin))
  IN IF isLastCol
     THEN IF LAST_ROW = row THEN <<stemSymbol, "_ ">>
          ELSE IF showStem THEN <<stemSymbol, endl>>
          ELSE <<endl>>
     ELSE <<stemSymbol, "  ">>

\* The loop over the margin columns, from column col on.
RECURSIVE MarginRow(_, _, _)
MarginRow(curMargin, col, row) ==
  IF col > Len(curMargin) THEN <<>>
  ELSE StemItems(curMargin, col, row) \o MarginRow(curMargin, col + 1, row)

\* The loop over the rows, from the given row on.
RECURSIVE MarginRows(_, _)
MarginRows(curMargin, row) ==
  IF row > LAST_ROW THEN <<>>
  ELSE MarginRow(curMargin, 1, row) \o MarginRows(curMargin, row + 1)

\* Faulty variant: nothing is written for an empty tree.
printEnter_SilentWhenEmpty(t, dbg) ==
  LET c == [NoCall EXCEPT !.op = "Print", !.this = t, !.showDebugMessages = dbg]
  IN IF NULL = rootNodePtr[t]
     THEN Returns(c, "none")
     ELSE [c EXCEPT !.pc = "print",
                    !.nodesToExplore = <<rootNodePtr[t]>>,
                    !.depthStack = <<0>>,
                    !.curMarginStack = << <<>> >>,
                    !.trailingMarginStack = << <<>> >>,
                    !.pushed = <<rootNodePtr[t]>>]

\* Entry of Print(os).
printEnter(t, dbg) ==
  LET c == [NoCall EXCEPT !.op = "Print", !.this = t, !.showDebugMessages = dbg]
  IN IF NULL = rootNodePtr[t]
     THEN Returns([c EXCEPT !.os = <<"[empty tree]", endl>>], "none")
     ELSE [c EXCEPT !.pc = "print",
                    !.nodesToExplore = <<rootNodePtr[t]>>,
                    !.depthStack = <<0>>,
                    !.curMarginStack = << <<>> >>,
                    !.trailingMarginStack = << <<>> >>,
                    !.pushed = <<rootNodePtr[t]>>]

\* What one iteration writes for curNode: the debug record, or the two margin
\* rows and the value.
Shown(c, curNode, curDepth, curMargin) ==
  IF c.showDebugMessages
  THEN [c EXCEPT !.os = @ \o <<"Depth: ", ToString(curDepth)>>,
                 !.cerr = @ \o <<" Data: ", Text(curNode), endl>>]
  ELSE [c EXCEPT !.os = @ \o MarginRows(curMargin, 1) \o <<Text(curNode), endl>>]

\* Faulty variant: every child leaves a stem trailing in the margin.
printStep_NoBlankTrailing(c) ==
  IF c.nodesToExplore = <<>> THEN Returns(c, "none")
  ELSE LET curNode == Top(c.nodesToExplore)
           curDepth == Top(c.depthStack)
           curMargin == Top(c.curMarginStack)
           trailingMargin == Top(c.trailingMarginStack)
           children == IF curNode # NULL THEN childrenPtrs[curNode] ELSE <<>>
           size == Len(children)
           pushes == [i \in 1..size |-> children[size + 1 - i]]
           shown == Shown(c, curNode, curDepth, curMargin)
       IN [(IF curNode # NULL THEN Deref(shown, curNode) ELSE shown) EXCEPT
             !.nodesToExplore = Pop(@) \o pushes,
             !.depthStack = Pop(@) \o [i \in 1..size |-> curDepth + 1],
             !.curMarginStack =
                Pop(@) \o [i \in 1..size |-> Append(trailingMargin, TRUE)],
             !.trailingMarginStack =
                Pop(@) \o [i \in 1..size |-> Append(trailingMargin, TRUE)],
             !.pushed = @ \o pushes,
             !.childrenRead = IF curNode # NULL THEN @ \cup {curNode} ELSE @]

\* Faulty variant: the blank trailing goes to the rightmost child that is
\* not a null pointer.
printStep_BlankAtLastNode(c) ==
  IF c.nodesToExplore = <<>> THEN Returns(c, "none")
  ELSE LET curNode == Top(c.nodesToExplore)
           curDepth == Top(c.depthStack)
           curMargin == Top(c.curMarginStack)
           trailingMargin == Top(c.trailingMarginStack)
           children == IF curNode # NULL THEN childrenPtrs[curNode] ELSE <<>>
           size == Len(children)
           pushes == [i \in 1..size |-> children[size + 1 - i]]
           shown == Shown(c, curNode, curDepth, curMargin)
       IN [(IF curNode # NULL THEN Deref(shown, curNode) ELSE shown) EXCEPT
             !.nodesToExplore = Pop(@) \o pushes,
             !.depthStack = Pop(@) \o [i \in 1..size |-> curDepth + 1],
             !.curMarginStack =
                Pop(@) \o [i \in 1..size |-> Append(trailingMargin, TRUE)],
             !.trailingMarginStack =
                Pop(@) \o [i \in 1..size |->
                   Append(trailingMargin,
                          \E j \in 1..(i - 1) : pushes[j] # NULL)],
             !.pushed = @ \o pushes,
             !.childrenRead = IF curNode # NULL THEN @ \cup {curNode} ELSE @]

\* The test of the loop of Print and one iteration of it: the four stacks are
\* popped, the entry is written, and the children pointers are pushed from
\* the last to the first, the first one pushed being the rightmost child.
printStep(c) ==
  IF c.nodesToExplore = <<>> THEN Returns(c, "none")
  ELSE LET curNode == Top(c.nodesToExplore)
           curDepth == Top(c.depthStack)
           curMargin == Top(c.curMarginStack)
           trailingMargin == Top(c.trailingMarginStack)
           children == IF curNode # NULL THEN childrenPtrs[curNode] ELSE <<>>
           size == Len(children)
           pushes == [i \in 1..size |-> children[size + 1 - i]]
           shown == Shown(c, curNode, curDepth, curMargin)
       IN [(IF curNode # NULL THEN Deref(shown, curNode) ELSE shown) EXCEPT
             !.nodesToExplore = Pop(@) \o pushes,
             !.depthStack = Pop(@) \o [i \in 1..size |-> curDepth + 1],
             !.curMarginStack =
                Pop(@) \o [i \in 1..size |-> Append(trailingMargin, TRUE)],
             !.trailingMarginStack =
                Pop(@) \o [i \in 1..size |-> Append(trailingMargin, i # 1)],
             !.pushed = @ \o pushes,
             !.childrenRead = IF curNode # NULL THEN @ \cup {curNode} ELSE @]

-----------------------------------------------------------------------------
\* The actions of the step-by-step specification.  The caller sets the public
\* member showDebugMessages as it likes between calls; its value at the call
\* is an input of the call.

\* The value the caller stores in the next node: one that names the node, so
\* that the output of Print tells the nodes apart.
NodeName(n) == "n" \o ToString(n)
NextValue == IF HasFree THEN NodeName(NewNode) ELSE NodeName(1)

Enter(c) ==
  /\ call.pc = "idle"
  /\ call' = c
  /\ UNCHANGED <<rootNodePtr, heap, lastOp>>

Advance(r) ==
  /\ call' = [r.call EXCEPT !.steps = @ + 1]
  /\ SetState(r)
  /\ UNCHANGED lastOp

NewRoot(t) ==
  /\ call.pc = "idle"
  /\ RootExists(t) \/ HasFree
  /\ SetState(createRoot(t, NextValue))
  /\ UNCHANGED <<lastOp, call>>

NewChild(p) ==
  /\ call.pc = "idle"
  /\ Live(p)
  /\ HasFree
  /\ SetState(addChild(p, NextValue))
  /\ UNCHANGED <<lastOp, call>>

DeleteSubtreeCall(t, targetRoot, dbg) ==
  /\ targetRoot = NULL \/ Live(targetRoot)
  /\ Enter(deleteSubtreeEnter("deleteSubtree", t, targetRoot, dbg))

ClearCall(t, dbg) == Enter(deleteSubtreeEnter("clear", t, rootNodePtr[t], dbg))

WalkBackStep ==
  /\ call.pc = "walkBack"
  /\ Advance(StepTo(walkBackStep(call), rootNodePtr, Heap))

DetachStep == call.pc = "detach" /\ Advance(detachStep(call))

ExploreStep == call.pc = "explore" /\ Advance(exploreStep(call))

ReleaseStep == call.pc = "release" /\ Advance(releaseStep(call))

CompressCall(t) == Enter(compressEnter(t))

CompressStep == call.pc = "compress" /\ Advance(compressStep(call))

PrintCall(t, dbg) == Enter(printEnter(t, dbg))

PrintStep ==
  /\ call.pc = "print"
  /\ Advance(StepTo(printStep(call), rootNodePtr, Heap))

\* The call is over: control is back with the caller.
ReturnStep ==
  /\ call.pc = "returned"
  /\ call' = NoCall
  /\ UNCHANGED <<rootNodePtr, heap, lastOp>>

NextSteps ==
  \/ \E t \in Trees : NewRoot(t)
  \/ \E p \in Nodes : NewChild(p)
  \/ \E t \in Trees, n \in Ptrs, dbg \in BOOLEAN : DeleteSubtreeCall(t, n, dbg)
  \/ \E t \in Trees, dbg \in BOOLEAN : ClearCall(t, dbg)
  \/ WalkBackStep
  \/ DetachStep
  \/ ExploreStep
  \/ ReleaseStep
  \/ \E t \in Trees : CompressCall(t)
  \/ CompressStep
  \/ \E t \in Trees, dbg \in BOOLEAN : PrintCall(t, dbg)
  \/ PrintStep
  \/ ReturnStep

SpecSteps == Init /\ [][NextSteps]_vars

TypeOK ==
  /\ rootNodePtr \in [Trees -> Ptrs]
  /\ status \in [Nodes -> {"unalloc", "live", "released"}]
  /\ data \in [Nodes -> Values \cup {NodeName(n) : n \in Nodes} \cup {NoData}]
  /\ parentPtr \in [Nodes -> Ptrs]
  /\ \A n \in Nodes : \A i \in DOMAIN childrenPtrs[n] : childrenPtrs[n][i] \in Ptrs
  /\ deleteCount \in [Nodes -> 0..MaxNodes]
  /\ call.pc \in {"idle", "walkBack", "detach", "explore", "release",
                 "compress", "print", "returned"}
  /\ \A i \in DOMAIN call.nodesToExplore : call.nodesToExplore[i] \in Ptrs
  /\ \A i \in DOMAIN call.nodesToDelete : call.nodesToDelete[i] \in Nodes
  /\ Len(call.depthStack) = Len(call.nodesToExplore) \/ call.op # "Print"

-----------------------------------------------------------------------------
\* Vocabulary of the properties.

\* The nodes reachable from the nodes of S through at most k children links.
RECURSIVE ReachSet(_, _, _)
ReachSet(children, S, k) ==
  LET next == S \cup {c \in Nodes \ S : \E n \in S : \E i \in DOMAIN children[n] :
                                           children[n][i] = c}
  IN IF k = 0 \/ next = S THEN S ELSE ReachSet(children, next, k - 1)

\* The subtree of n: n and everything reachable from it through children links.
SubtreeOf(children, n) == IF n = NULL THEN {} ELSE ReachSet(children, {n}, MaxNodes)

\* The nodes of tree t: everything reachable from its root.
TreeNodes(t) == SubtreeOf(childrenPtrs, rootNodePtr[t])

\* The entries of a children sequence that are neither tombstones nor in S,
\* in their order.
Surviving(children, S) == SelectSeq(children, LAMBDA c : c # NULL /\ c \notin S)

HasTombstone(children) == \E i \in DOMAIN children : children[i] = NULL

Occurrences(children, n) == Cardinality({i \in DOMAIN children : children[i] = n})

Released == {n \in Nodes : status[n] = "released"}

\* Node m is the same in heap h as in the current heap.
SameNode(h, m) ==
  /\ h.status[m] = status[m]
  /\ h.data[m] = data[m]
  /\ h.parentPtr[m] = parentPtr[m]
  /\ h.childrenPtrs[m] = childrenPtrs[m]
  /\ h.deleteCount[m] = deleteCount[m]

\* The call with outcome r changed nothing.
NoEffect(r) == r.rootNodePtr = rootNodePtr /\ r.h = Heap

-----------------------------------------------------------------------------
\* C1: deleteSubtree(n) on a live node n of the tree releases exactly the live
\* nodes reachable from n through children links (n included), each once;
\* every other node keeps its allocation state, its value, its parent
\* reference and the relative order of the surviving entries of its children.
C1_DeleteSubtreeExact ==
  \A t \in Trees : \A n \in TreeNodes(t) : Live(n) =>
    LET r == deleteSubtree(t, n)
        S == SubtreeOf(childrenPtrs, n)
    IN /\ r.err = "none"
       /\ \A m \in S : /\ status[m] = "live"
                       /\ r.h.status[m] = "released"
                       /\ r.h.deleteCount[m] = deleteCount[m] + 1
       /\ \A m \in Nodes \ S :
            /\ r.h.status[m] = status[m]
            /\ r.h.deleteCount[m] = deleteCount[m]
            /\ r.h.data[m] = data[m]
            /\ r.h.parentPtr[m] = parentPtr[m]
            /\ Surviving(r.h.childrenPtrs[m], {}) = Surviving(childrenPtrs[m], S)

\* A deleteSubtree call has just released a subtree of two or more nodes below
\* a root that survives with another child.
C1_Witness ==
  /\ lastOp.op = "deleteSubtree" /\ lastOp.err = "none" /\ lastOp.changed
  /\ Cardinality(Released) >= 2
  /\ rootNodePtr["B"] = NULL
  /\ Live(rootNodePtr["A"])
  /\ HasTombstone(childrenPtrs[rootNodePtr["A"]])
  /\ Surviving(childrenPtrs[rootNodePtr["A"]], {}) # <<>>

\* C2: a.deleteSubtree(n) with n a live node of the other tree b fails with the
\* cross-tree error, releases nothing and leaves both trees as they were,
\* also when a is empty.
C2_CrossTreeRejected ==
  \A a \in Trees, b \in Trees : a # b =>
    \A n \in TreeNodes(b) : Live(n) =>
      LET r == deleteSubtree(a, n)
      IN r.err = "CrossTree" /\ NoEffect(r)

\* The empty tree A has just rejected a non-root node of B.
C2_Witness ==
  /\ lastOp = [op |-> "deleteSubtree", err |-> "CrossTree", changed |-> FALSE]
  /\ rootNodePtr["A"] = NULL
  /\ Live(rootNodePtr["B"])
  /\ Surviving(childrenPtrs[rootNodePtr["B"]], {}) # <<>>

\* C3: createRoot(v) succeeds exactly when the tree is empty: it installs and
\* returns a new node with value v, no parent and no children, touching no
\* other node; on a tree with a root it fails with the already-initialized
\* error and changes nothing.
C3_CreateRoot ==
  \A t \in Trees, v \in Values : (rootNodePtr[t] # NULL \/ HasFree) =>
    LET r == createRoot(t, v)
    IN IF rootNodePtr[t] = NULL
       THEN /\ r.err = "none"
            /\ r.ret \in Nodes /\ ~Live(r.ret)
            /\ r.rootNodePtr = [rootNodePtr EXCEPT ![t] = r.ret]
            /\ r.h.status[r.ret] = "live"
            /\ r.h.data[r.ret] = v
            /\ r.h.parentPtr[r.ret] = NULL
            /\ r.h.childrenPtrs[r.ret] = <<>>
            /\ \A m \in Nodes \ {r.ret} : SameNode(r.h, m)
       ELSE r.err = "AlreadyInitialized" /\ NoEffect(r)

\* createRoot has just succeeded on tree A, whose root is the newest node,
\* after older nodes were released and while B has a root.
C3_Witness ==
  /\ lastOp.op = "createRoot" /\ lastOp.err = "none"
  /\ Live(rootNodePtr["A"]) /\ childrenPtrs[rootNodePtr["A"]] = <<>>
  /\ \A m \in Nodes : m > rootNodePtr["A"] => status[m] = "unalloc"
  /\ Live(rootNodePtr["B"]) /\ rootNodePtr["B"] < rootNodePtr["A"]
  /\ \A n \in Nodes : n < rootNodePtr["B"] => status[n] = "released"
  /\ rootNodePtr["B"] > 1

\* C4: p.addChild(v) on a live node p creates one new node with value v,
\* parent p and no children as the last entry of p's children; the earlier
\* entries of p's children keep their positions and nothing else changes.
C4_AddChild ==
  \A p \in Nodes, v \in Values : (Live(p) /\ HasFree) =>
    LET r == addChild(p, v)
        c == r.ret
        old == childrenPtrs[p]
        new == r.h.childrenPtrs[p]
    IN /\ r.err = "none"
       /\ c \in Nodes /\ status[c] = "unalloc"
       /\ r.h.status[c] = "live"
       /\ r.h.data[c] = v
       /\ r.h.parentPtr[c] = p
       /\ r.h.childrenPtrs[c] = <<>>
       /\ Len(new) = Len(old) + 1
       /\ new[Len(new)] = c
       /\ \A i \in DOMAIN old : new[i] = old[i]
       /\ r.h.status[p] = status[p] /\ r.h.data[p] = data[p]
       /\ r.h.parentPtr[p] = parentPtr[p]
       /\ r.h.deleteCount = deleteCount
       /\ \A m \in Nodes \ {c, p} : SameNode(r.h, m)
       /\ r.rootNodePtr = rootNodePtr

\* addChild has just appended the newest node after a tombstone.
C4_Witness ==
  /\ lastOp.op = "addChild"
  /\ \E p \in Nodes :
       /\ Live(p) /\ Len(childrenPtrs[p]) >= 2
       /\ childrenPtrs[p][Len(childrenPtrs[p]) - 1] = NULL
       /\ LET c == childrenPtrs[p][Len(childrenPtrs[p])]
          IN Live(c) /\ \A m \in Nodes : m > c => status[m] = "unalloc"

\* C5: when deleteSubtree(n) returns normally, the tree is empty if n was its
\* root, and otherwise its root is present, live and the same node as before.
C5_RootAfterDelete ==
  \A t \in Trees : \A n \in TreeNodes(t) : Live(n) =>
    LET r == deleteSubtree(t, n)
    IN r.err = "none" =>
         IF n = rootNodePtr[t]
         THEN r.rootNodePtr[t] = NULL
         ELSE /\ r.rootNodePtr[t] # NULL
              /\ r.rootNodePtr[t] = rootNodePtr[t]
              /\ r.h.status[r.rootNodePtr[t]] = "live"

\* deleteSubtree has just removed a non-root node: the root is still there,
\* with a tombstone among its children.
C5_Witness ==
  /\ lastOp.op = "deleteSubtree" /\ lastOp.err = "none" /\ lastOp.changed
  /\ Cardinality(Released) = 1
  /\ \E t \in Trees : /\ Live(rootNodePtr[t])
                       /\ HasTombstone(childrenPtrs[rootNodePtr[t]])

\* C6: in the heap that compress() leaves when it returns, no node reachable
\* from the root of the tree has a tombstone among its children, at any depth.
C6_CompressNoTombstone ==
  \A t \in Trees :
    LET r == compress(t)
    IN r.err = "none" =>
         \A n \in SubtreeOf(r.h.childrenPtrs, r.rootNodePtr[t]) :
           r.h.status[n] = "live" => ~HasTombstone(r.h.childrenPtrs[n])

\* compress has just swept tombstones from a tree whose root keeps one live
\* child, after two nodes had been released.
C6_Witness ==
  /\ lastOp.op = "compress" /\ lastOp.err = "none" /\ lastOp.changed
  /\ Cardinality(Released) = 2
  /\ rootNodePtr["B"] = NULL
  /\ LET root == rootNodePtr["A"]
     IN /\ Live(root)
        /\ Len(childrenPtrs[root]) = 1
        /\ Live(childrenPtrs[root][1])
        /\ childrenPtrs[childrenPtrs[root][1]] = <<>>

\* C7: compress() returns without releasing a node or changing a value, a
\* parent reference or a root; the children of every node of the tree become
\* their former children with the tombstones filtered out, in the same order,
\* and the children of the other nodes stay as they were.  On an empty tree
\* nothing changes.
C7_CompressFrame ==
  \A t \in Trees :
    LET r == compress(t)
    IN /\ r.err = "none"
       /\ r.rootNodePtr = rootNodePtr
       /\ r.h.status = status
       /\ r.h.data = data
       /\ r.h.parentPtr = parentPtr
       /\ r.h.deleteCount = deleteCount
       /\ \A n \in Nodes :
            r.h.childrenPtrs[n] = IF n \in TreeNodes(t)
                                  THEN Surviving(childrenPtrs[n], {})
                                  ELSE childrenPtrs[n]
       /\ rootNodePtr[t] = NULL => NoEffect(r)

\* compress has just swept a tombstone from a root that keeps two live
\* children, the older one first.
C7_Witness ==
  /\ lastOp.op = "compress" /\ lastOp.err = "none" /\ lastOp.changed
  /\ rootNodePtr["B"] = NULL /\ Live(rootNodePtr["A"])
  /\ LET kids == childrenPtrs[rootNodePtr["A"]]
     IN /\ Len(kids) = 2
        /\ Live(kids[1]) /\ Live(kids[2])
        /\ kids[1] < kids[2]

\* C8: compress is idempotent: a second compress() right after a first one
\* ends the same way and leaves the children sequences the first one left
\* (compress touches nothing else).
C8_CompressIdempotent ==
  \A t \in Trees :
    LET once == compressFrom(rootNodePtr[t], childrenPtrs)
        twice == compressFrom(rootNodePtr[t], once.childrenPtrs)
    IN twice = once

\* A first compress has just changed tree A, which keeps a root with a child,
\* and a second one would change nothing.
C8_Witness ==
  /\ lastOp.op = "compress" /\ lastOp.err = "none" /\ lastOp.changed
  /\ rootNodePtr["B"] = NULL
  /\ Live(rootNodePtr["A"])
  /\ Surviving(childrenPtrs[rootNodePtr["A"]], {}) # <<>>
  /\ NoEffect(compress("A"))

\* C9: clear() returns normally on every reachable tree, empty or with
\* tombstones: it releases every live node of the tree exactly once and no
\* other node, and leaves the root absent and the other tree's root alone.
C9_Clear ==
  \A t \in Trees :
    LET r == clear(t)
        S == TreeNodes(t)
    IN /\ r.err = "none"
       /\ r.rootNodePtr = [rootNodePtr EXCEPT ![t] = NULL]
       /\ \A m \in S : /\ status[m] = "live"
                       /\ r.h.status[m] = "released"
                       /\ r.h.deleteCount[m] = 1
       /\ \A m \in Nodes \ S : /\ r.h.status[m] = status[m]
                               /\ r.h.deleteCount[m] = deleteCount[m]
       /\ \A m \in Nodes : r.h.deleteCount[m] <= 1

\* clear has just emptied the last tree: every node of the heap is released.
C9_Witness ==
  /\ lastOp.op = "clear" /\ lastOp.err = "none" /\ lastOp.changed
  /\ Released = Nodes
  /\ rootNodePtr = [t \in Trees |-> NULL]

\* The ancestors of n: the nodes met by following parent references from n,
\* at most k of them.
RECURSIVE Ancestors(_, _)
Ancestors(n, k) ==
  IF k = 0 \/ parentPtr[n] = NULL THEN {}
  ELSE {parentPtr[n]} \cup Ancestors(parentPtr[n], k - 1)

IsRoot(n) == \E t \in Trees : rootNodePtr[t] = n

\* C10: after every public operation the parent and children links of the
\* live nodes are consistent and acyclic: a live non-root node has a live
\* parent and occurs exactly once in that parent's children, every
\* non-tombstone entry of a live node's children is a live node whose parent
\* is that node, and no live node is its own ancestor.
C10_LinksConsistent ==
  \A n \in Nodes : Live(n) =>
    /\ ~IsRoot(n) => /\ Live(parentPtr[n])
                     /\ Occurrences(childrenPtrs[parentPtr[n]], n) = 1
    /\ \A i \in DOMAIN childrenPtrs[n] :
         childrenPtrs[n][i] # NULL =>
           /\ Live(childrenPtrs[n][i])
           /\ parentPtr[childrenPtrs[n][i]] = n
    /\ n \notin Ancestors(n, MaxNodes)

\* After a deletion, a root with a tombstone followed by a live child that
\* has a child of its own.
C10_Witness ==
  \E t \in Trees :
    /\ Live(rootNodePtr[t])
    /\ Len(childrenPtrs[rootNodePtr[t]]) = 2
    /\ childrenPtrs[rootNodePtr[t]][1] = NULL
    /\ Live(childrenPtrs[rootNodePtr[t]][2])
    /\ Surviving(childrenPtrs[childrenPtrs[rootNodePtr[t]][2]], {}) # <<>>

\* The end of the parent chain of n, followed for at most k references.
RECURSIVE ChainEnd(_, _)
ChainEnd(n, k) ==
  IF k = 0 \/ parentPtr[n] = NULL THEN n ELSE ChainEnd(parentPtr[n], k - 1)

\* C11: after every public operation, the root pointer of a non-empty tree is
\* a live node without a parent and the only such node of the tree; the parent
\* chain of every live node runs through live nodes only and ends at the root
\* of the tree the node is in, so that no live node hangs below a released
\* node, outside the trees, or in two trees.
C11_OneRootPerTree ==
  LET nodesOf == [t \in Trees |-> TreeNodes(t)] IN
    /\ \A t \in Trees : rootNodePtr[t] # NULL =>
         /\ Live(rootNodePtr[t])
         /\ {n \in nodesOf[t] : Live(n) /\ parentPtr[n] = NULL} = {rootNodePtr[t]}
         /\ \A n \in nodesOf[t] : Live(n) =>
              /\ ChainEnd(n, MaxNodes) = rootNodePtr[t]
              /\ \A a \in Ancestors(n, MaxNodes) : Live(a)
    /\ \A n \in Nodes : Live(n) =>
         Cardinality({t \in Trees : n \in nodesOf[t]}) = 1

\* After a deletion in tree A, both trees have a root, and A's root has a
\* live child next to the tombstone of the released one.
C11_Witness ==
  /\ lastOp.op = "deleteSubtree" /\ lastOp.err = "none" /\ lastOp.changed
  /\ Live(rootNodePtr["A"]) /\ Live(rootNodePtr["B"])
  /\ HasTombstone(childrenPtrs[rootNodePtr["A"]])
  /\ \E n \in TreeNodes("A") : Live(n) /\ parentPtr[n] = rootNodePtr["A"]

\* C16: deleteSubtree on a live non-root node n of the tree puts a tombstone
\* in the one slot of its parent's children that held n: the sequence keeps
\* its length and every other slot keeps its content at its index.  The
\* children of every other surviving node stay as they are, so a deletion
\* shortens no children sequence; neither does addChild.
C16_TombstoneInPlace ==
  /\ \A t \in Trees : \A n \in TreeNodes(t) : Live(n) =>
       LET r == deleteSubtree(t, n)
           p == parentPtr[n]
       IN /\ n # rootNodePtr[t] =>
               LET old == childrenPtrs[p]
                   new == r.h.childrenPtrs[p]
               IN /\ r.err = "none"
                  /\ r.h.status[p] = "live"
                  /\ Len(new) = Len(old)
                  /\ \E i \in DOMAIN old :
                       /\ old[i] = n /\ new[i] = NULL
                       /\ \A j \in DOMAIN old : j # i => new[j] = old[j]
          /\ \A m \in Nodes : (r.h.status[m] = "live" /\ m # p) =>
               r.h.childrenPtrs[m] = childrenPtrs[m]
  /\ \A q \in Nodes, v \in Values : (Live(q) /\ HasFree) =>
       LET grown == addChild(q, v).h.childrenPtrs
       IN \A m \in Nodes : Live(m) => Len(grown[m]) >= Len(childrenPtrs[m])

\* A second deletion below the root of A has just left two tombstones around
\* a live child: the middle slot of three is the one still in use.
C16_Witness ==
  /\ lastOp.op = "deleteSubtree" /\ lastOp.err = "none" /\ lastOp.changed
  /\ Live(rootNodePtr["A"])
  /\ LET kids == childrenPtrs[rootNodePtr["A"]]
     IN /\ Len(kids) = 3
        /\ kids[1] = NULL /\ Live(kids[2]) /\ kids[3] = NULL

\* C17: the defensive errors do not occur: no call has ended with the
\* queued-null error of compress or the not-listed error of deleteSubtree,
\* compress on either tree would not raise the former, and deleteSubtree of
\* either tree on any live node would not raise the latter.
C17_NoCorruptionError ==
  /\ lastOp.err \notin {"QueuedNull", "NotListed"}
  /\ \A t \in Trees : compress(t).err # "QueuedNull"
  /\ \A t \in Trees : \A n \in Nodes : Live(n) =>
       deleteSubtree(t, n).err # "NotListed"

\* compress has just returned normally from a tree that had tombstones and
\* keeps a live node two levels below the root, which can be deleted next.
C17_Witness ==
  /\ lastOp.op = "compress" /\ lastOp.err = "none" /\ lastOp.changed
  /\ Live(rootNodePtr["A"])
  /\ \E n \in TreeNodes("A") :
       /\ Live(n) /\ parentPtr[n] # NULL
       /\ parentPtr[parentPtr[n]] = rootNodePtr["A"]
       /\ deleteSubtree("A", n).err = "none"

-----------------------------------------------------------------------------
\* Properties of the step-by-step specification.

PrintReturned(t) ==
  call.op = "Print" /\ call.pc = "returned" /\ call.this = t

\* C12: Print on an empty tree writes the empty-tree marker line and nothing
\* else, to either stream; Print on a tree that is a single root, with the
\* debug flag off, writes one line: the root's value with nothing before it.
C12_PrintEmptyAndSingleRoot ==
  \A t \in Trees : PrintReturned(t) =>
    /\ call.err = "none"
    /\ rootNodePtr[t] = NULL =>
         call.os = <<"[empty tree]", endl>> /\ call.cerr = <<>>
    /\ (rootNodePtr[t] # NULL /\ childrenPtrs[rootNodePtr[t]] = <<>>
          /\ ~call.showDebugMessages) =>
         call.os = <<data[rootNodePtr[t]], endl>> /\ call.cerr = <<>>

\* Print has returned from tree A, a single root that is the second node
\* allocated: the output is its value and a newline.
C12_Witness ==
  /\ PrintReturned("A") /\ ~call.showDebugMessages
  /\ rootNodePtr["A"] = 2 /\ childrenPtrs[2] = <<>>
  /\ call.os = <<"n2", endl>>

\* The entries of a rendering of the subtree at pointer ptr, in order: the
\* entry of ptr itself (a node or a tombstone) at the given depth, then the
\* entries of its children slots from the first to the last.  bars holds, for
\* each ancestor level from 1 to depth - 1, whether the ancestor at that level
\* is not the last entry of its parent's children; notLast says the same of
\* ptr itself.
RECURSIVE EntriesOf(_, _, _, _), ChildEntries(_, _, _, _)
EntriesOf(ptr, depth, bars, notLast) ==
  <<[ptr |-> ptr, depth |-> depth, bars |-> bars]>>
    \o (IF ptr = NULL THEN <<>>
        ELSE ChildEntries(ptr, 1, depth + 1,
                          IF depth = 0 THEN <<>> ELSE Append(bars, notLast)))
ChildEntries(n, i, depth, bars) ==
  IF i > Len(childrenPtrs[n]) THEN <<>>
  ELSE EntriesOf(childrenPtrs[n][i], depth, bars, i # Len(childrenPtrs[n]))
         \o ChildEntries(n, i + 1, depth, bars)

\* The ancestor-level columns of a row: a vertical bar or a blank, each with
\* its padding.
RECURSIVE BarColumns(_)
BarColumns(bars) ==
  IF bars = <<>> THEN <<>>
  ELSE <<IF Head(bars) THEN "|" ELSE " ", "  ">> \o BarColumns(Tail(bars))

\* An entry as drawn: the root as its value alone; any other entry as a
\* spacer row and a value row, whose deepest column is the stem, with the
\* corner connector in the value row.
Drawn(e) ==
  IF e.depth = 0 THEN <<Text(e.ptr), endl>>
  ELSE BarColumns(e.bars) \o <<"|", endl>>
         \o BarColumns(e.bars) \o <<"|", "_ ", Text(e.ptr), endl>>

RECURSIVE DrawnAll(_)
DrawnAll(es) == IF es = <<>> THEN <<>> ELSE Drawn(Head(es)) \o DrawnAll(Tail(es))

TreeEntries(t) == EntriesOf(rootNodePtr[t], 0, <<>>, FALSE)

EntryIndex(es, n) == CHOOSE i \in DOMAIN es : es[i].ptr = n

Compacted(t) == \A n \in TreeNodes(t) : ~HasTombstone(childrenPtrs[n])

\* C13: with the debug flag off, the output of Print on a tree without
\* tombstones is the drawing of its entries: every live node of the tree
\* occurs once, a node before its children and the subtree of a child before
\* that of a later sibling, at the depth that is the number of its ancestors;
\* the deepest column of a non-root entry is the corner connector and the
\* column of an ancestor level is a bar exactly when the ancestor at that
\* level is not the last entry of its parent's children.
C13_PrintCompactedTree ==
  \A t \in Trees :
    (PrintReturned(t) /\ ~call.showDebugMessages /\ rootNodePtr[t] # NULL
       /\ Compacted(t)) =>
      LET es == TreeEntries(t) IN
        /\ call.os = DrawnAll(es)
        /\ call.cerr = <<>>
        /\ Len(es) = Cardinality(TreeNodes(t))
        /\ \A n \in TreeNodes(t) :
             /\ Live(n)
             /\ Cardinality({i \in DOMAIN es : es[i].ptr = n}) = 1
             /\ es[EntryIndex(es, n)].depth = Cardinality(Ancestors(n, MaxNodes))
             /\ parentPtr[n] # NULL =>
                  EntryIndex(es, parentPtr[n]) < EntryIndex(es, n)
             /\ \A i, j \in DOMAIN childrenPtrs[n] : i < j =>
                  \A m \in SubtreeOf(childrenPtrs, childrenPtrs[n][i]) :
                    EntryIndex(es, m) < EntryIndex(es, childrenPtrs[n][j])

\* Print has returned from the compacted tree A: root n1 with the children n2
\* and n3, where n2 has the child n4: n4 is drawn below a bar, and after it n3.
C13_Witness ==
  /\ PrintReturned("A") /\ ~call.showDebugMessages
  /\ rootNodePtr["A"] = 1 /\ childrenPtrs[1] = <<2, 3>>
  /\ childrenPtrs[2] = <<4>>
  /\ call.os = <<"n1", endl,
                 "|", endl,
                 "|", "_ ", "n2", endl,
                 "|", "  ", "|", endl,
                 "|", "  ", "|", "_ ", "n4", endl,
                 "|", endl,
                 "|", "_ ", "n3", endl>>

Range(seq) == {seq[i] : i \in DOMAIN seq}

DeleteInProgress == call.op \in {"deleteSubtree", "clear"}

\* C14: within a deleteSubtree call nothing is released while the target is
\* walked back from, detached or explored; once a node has been released the
\* explore stack is empty and the children of every node released or still
\* recorded for release have been read; and at no step of the call is a field
\* of a released node read.
C14_EnumerationBeforeRelease ==
  DeleteInProgress =>
    /\ call.pc \in {"walkBack", "detach", "explore"} => call.released = {}
    /\ call.released # {} =>
         /\ call.nodesToExplore = <<>>
         /\ call.released \cup Range(call.nodesToDelete) \subseteq call.childrenRead
    /\ ~call.readReleased

\* The delete loop has released one node of a subtree and has two or more
\* still to release.
C14_Witness ==
  /\ call.op = "deleteSubtree" /\ call.pc = "release"
  /\ Cardinality(call.released) = 1
  /\ Len(call.nodesToDelete) >= 2

\* C15: no node is ever released twice.  In a deleteSubtree call the nodes
\* recorded for release are live nodes, each recorded once, none of them a
\* null pointer or a node released before, also when the subtree holds the
\* tombstone of a descendant deleted earlier.
C15_ReleasedAtMostOnce ==
  /\ \A n \in Nodes : deleteCount[n] <= 1
  /\ DeleteInProgress =>
       /\ \A i \in DOMAIN call.nodesToDelete :
            /\ Live(call.nodesToDelete[i])
            /\ \A j \in DOMAIN call.nodesToDelete :
                 call.nodesToDelete[i] = call.nodesToDelete[j] => i = j
       /\ \A n \in call.released : status[n] = "released" /\ deleteCount[n] = 1
       /\ call.released \cap Range(call.nodesToDelete) = {}

\* The explore loop of a deleteSubtree call has ended after popping the
\* tombstone of a node released by an earlier call, with two nodes recorded
\* for release.
C15_Witness ==
  /\ call.op = "deleteSubtree" /\ call.pc = "release"
  /\ call.released = {}
  /\ call.skipped >= 1
  /\ Len(call.nodesToDelete) = 2
  /\ Released # {}

\* The flat records of the entries: depth and value, or the null marker.
RECURSIVE DebugRecords(_)
DebugRecords(es) ==
  IF es = <<>> THEN <<>>
  ELSE <<"Depth: ", ToString(Head(es).depth), " Data: ", Text(Head(es).ptr), endl>>
         \o DebugRecords(Tail(es))

\* C18: with the debug flag set, Print on a tree with a root writes nothing
\* to its output stream os, neither margin rows nor anything else; when it
\* returns, std::cerr has received one record of depth and value (or null
\* marker) for each entry visited, in visiting order.
C18_DebugTraceOnDiagnosticSink ==
  \A t \in Trees :
    (call.op = "Print" /\ call.this = t /\ call.showDebugMessages
       /\ rootNodePtr[t] # NULL) =>
      /\ call.os = <<>>
      /\ call.pc = "returned" => call.cerr = DebugRecords(TreeEntries(t))

\* Number of steps within which every call is over.
CallStepBound == 3 * MaxNodes + 3

\* A step of the call in progress.
CallStep ==
  \/ WalkBackStep \/ DetachStep \/ ExploreStep \/ ReleaseStep
  \/ CompressStep \/ PrintStep \/ ReturnStep

\* C19: every call ends: a call in progress can always take a step, it
\* returns or throws within CallStepBound steps, and no node is pushed for
\* exploration twice in a call.
C19_CallsTerminate ==
  /\ call.steps <= CallStepBound
  /\ call.pc # "idle" => ENABLED CallStep
  /\ \A n \in Nodes : Occurrences(call.pushed, n) <= 1
  /\ call.pc = "walkBack" => Live(call.walkBack)

\* A deleteSubtree call has returned after walking back over two parent
\* references and releasing two nodes.
C19_Witness ==
  /\ call.op = "deleteSubtree" /\ call.pc = "returned" /\ call.err = "none"
  /\ call.walkBack # call.targetRoot
  /\ call.walkBack # NULL /\ Live(call.walkBack)
  /\ Cardinality(call.released) = 2
  /\ call.steps >= 9

\* C20: with the debug flag off, the output of Print on a tree that holds
\* tombstones is the drawing of its entries, tombstones included: every slot
\* of a node of the tree gives one entry, a null-marker entry for a tombstone,
\* one level below the node and in slot order; no released node has an entry;
\* and a node followed by a tombstone in the last slot counts as not last, so
\* that its descendants get a bar in its column.
C20_PrintTombstones ==
  \A t \in Trees :
    (PrintReturned(t) /\ ~call.showDebugMessages /\ rootNodePtr[t] # NULL
       /\ ~Compacted(t)) =>
      LET es == TreeEntries(t) IN
        /\ call.os = DrawnAll(es)
        /\ \A i \in DOMAIN es : es[i].ptr # NULL => Live(es[i].ptr)
        /\ \A n \in TreeNodes(t) :
             LET at == EntryIndex(es, n)
                 slots == {i \in DOMAIN es :
                             /\ i > at
                             /\ es[i].depth = es[at].depth + 1
                             /\ \A k \in (at + 1)..i : es[k].depth > es[at].depth}
             IN /\ Cardinality(slots) = Len(childrenPtrs[n])
                /\ \A i \in slots :
                     es[i].ptr =
                       childrenPtrs[n][Cardinality({k \in slots : k <= i})]
                /\ \A i \in slots :
                     (es[i].ptr # NULL /\ childrenPtrs[n][Len(childrenPtrs[n])] = NULL) =>
                       \A k \in DOMAIN es :
                         (es[k].ptr # NULL /\ es[i].ptr \in Ancestors(es[k].ptr, MaxNodes)) =>
                           es[k].bars[es[i].depth]

\* Print has returned from tree A: root n1 with the child n2 and the tombstone
\* of n3 behind it, where n2 has the child n4: n4 is drawn below a bar, and
\* the tombstone comes last as a null marker.
C20_Witness ==
  /\ PrintReturned("A") /\ ~call.showDebugMessages
  /\ rootNodePtr["A"] = 1 /\ childrenPtrs[1] = <<2, NULL>>
  /\ childrenPtrs[2] = <<4>>
  /\ status[3] = "released"
  /\ call.os = <<"n1", endl,
                 "|", endl,
                 "|", "_ ", "n2", endl,
                 "|", "  ", "|", endl,
                 "|", "  ", "|", "_ ", "n4", endl,
                 "|", endl,
                 "|", "_ ", "[null]", endl>>

=============================================================================
